---------------------------- MODULE Spec2Model ----------------------------
(***************************************************************************)
(* WedFind client orchestration: the useUpload hook (sequential batch      *)
(* upload over XMLHttpRequest, with cancellation), the useSearch hook      *)
(* (face search with the locally persisted "not me" set) as the find page  *)
(* uses it, and the useJobStatus hook (the job poller).                    *)
(*                                                                         *)
(* Scheduling: JavaScript runs one job at a time.  A step of the model is  *)
(* one job: an event handler, or the part of an async function between     *)
(* two awaits.  A promise's settlement (the XHR event that calls resolve   *)
(* or reject) and the resumption of the function awaiting it (the promise  *)
(* reaction) are separate steps.  A React state update, the render it      *)
(* causes and the effects of that render are part of the step that made    *)
(* the update.                                                             *)
(***************************************************************************)
EXTENDS Integers, Sequences, FiniteSets, TLC

(* ------------------------------ bounds --------------------------------- *)

\* Longest file list handed to upload().
MaxFiles == 3

\* Number of distinct image identifiers.
MaxImages == 2

\* Longest list of explicit exclusions handed to search().
MaxExplicit == 2

\* Most search() calls outstanding at once.
MaxPending == 2

\* Most feedback requests outstanding at once.
MaxFeedback == 1

\* Most status fetches the poller issues, and most it has outstanding at once.
MaxFetches == 5
MaxInFlight == 2

\* Most changes of the poller's job identifier.
MaxRuns == 1

\* Files in the batch of the upload page.
MaxBatch == 2

(* ----------------------------- constants ------------------------------- *)

Null == [null |-> TRUE]

\* api.ts:107, route.ts:231: the message of the error an aborted XHR rejects with.
UPLOAD_CANCELLED == "Upload cancelled"

\* A File: its name and its size.  Only its position in the list, its name and its
\* size reach the hook's state, so the k-th selected file is named k and is k bytes.
FileAt(k) == [name |-> k, size |-> k]

\* The file lists handed to upload(): the empty one and those of 1..MaxFiles files.
FileLists == {[k \in 1..n |-> FileAt(k)] : n \in 0..MaxFiles}

\* The ProgressEvents (loaded, total) of the upload of a file of this size: total is
\* the size of the multipart body, one tick on the way and one at the end.
ProgressEvents(size) == {<<l, size + 1>> : l \in {1, size + 1}}

\* route.ts:28
HIDDEN_IDS_KEY == "camera_hidden_ids"

EventIds == {"A", "B"}
ImageIds == {ToString(k) : k \in 1..MaxImages}
Selfies == {"s1", "s2"}

\* find/page.tsx:35, 38: no selfie captured (null), no text query ("").
NoSelfie == ""
NoQuery == ""

\* The items of a list, as a set.
Range(seq) == {seq[k] : k \in DOMAIN seq}

SeqsUpTo(S, n) == UNION {[1..k -> S] : k \in 0..n}

\* The explicit exclusion lists handed to search(); none passed is the empty list.
ExplicitLists == SeqsUpTo(ImageIds, MaxExplicit)

VARIABLES
    \* ---- useUpload: React state and refs
    uploading, uploadError, result, progress, abortRef, cancelledRef,
    \* ---- useUpload.upload: the running invocation's arguments, locals and position
    files, i, filesCompleted, filesFailed, aggregated, upc,
    \* ---- the XMLHttpRequests of the running batch, in the order they were sent
    transfers,
    \* ---- history: where the batch was when cancel() was first called in it
    cancelAt,
    \* ---- useSearch: the eventId it was given and its React state
    eventId, searching, searchError, results, selfieHash, feedbackApplied, hiddenIds,
    \* ---- localStorage: the text stored under each key, <<>> when there is none
    storage,
    \* ---- the selfies of the searchFaces calls not yet answered, oldest first, and
    \* ---- the form of the request sent last, with (history) the identifiers its
    \* ---- search() call was asked to leave out: the hidden and the explicit ones
    pending, lastRequest,
    \* ---- history: the outcome of the search() call made last and whether an earlier
    \* ---- call settled after it (it was overtaken), and whether the last
    \* ---- step was an addHiddenId of an identifier that was already hidden
    latest, reAdded,
    \* ---- a second tab of the browser: whether it is open, and the eventId and the
    \* ---- hiddenIds of its useSearch
    tab2,
    \* ---- the find page's feedback requests not yet answered
    feedback,
    \* ---- history: per event, the identifiers passed to addHiddenId since the last
    \* ---- clearHiddenIds of a session of that event; the operation of the last step
    marked, lastOp,
    \* ---- useJobStatus: the jobId it was given and its React state
    jobId, job, pollError,
    \* ---- the interval timer running (0 for none), the number of timers set so far
    interval, timers,
    \* ---- the getJobStatus calls not yet settled, oldest first
    fetches,
    \* ---- the service: the status of each job
    serverStatus,
    \* ---- history: the statuses the service gave the fetches issued since the jobId
    \* ---- was last set, in the order they were issued, and the jobs for which a
    \* ---- terminal status has reached the poller
    replies, terminal,
    \* ---- request: the Response fetch() resolved with, and what the call of
    \* ---- request() has come to
    res, requested,
    \* ---- the find page: the text query (trimmed), the selfie of the last capture
    \* ---- ("" for none) and the React state of its smart search
    searchQuery, lastSelfieRef, smartResults, smartSearching, smartError,
    \* ---- the smartSearch calls not yet answered, oldest first
    smartPending,
    \* ---- the upload page: the React state of its processing display, whether its
    \* ---- interval timer is running, and the getEventStats calls not yet settled
    processedCount, totalImages, processingDone, statsInterval, statsFetches,
    \* ---- the service: the event's image_count and processed_count
    statsServer,
    \* ---- history: the number of getEventStats calls made, and whether an answer
    \* ---- with processed_count >= image_count > 0 has reached the page
    statsIssued, doneReported

uploadVars == <<uploading, uploadError, result, progress, abortRef, cancelledRef,
                files, i, filesCompleted, filesFailed, aggregated, upc,
                transfers, cancelAt>>

searchVars == <<eventId, searching, searchError, results, selfieHash, feedbackApplied,
                hiddenIds, storage, pending, lastRequest, latest, reAdded,
                tab2, feedback, marked, lastOp>>

pollVars == <<jobId, job, pollError, interval, timers, fetches, serverStatus,
              replies, terminal>>

clientVars == <<res, requested>>

pageVars == <<searchQuery, lastSelfieRef, smartResults, smartSearching, smartError,
              smartPending>>

statsVars == <<processedCount, totalImages, processingDone, statsInterval,
               statsFetches, statsServer, statsIssued, doneReported>>

vars == <<uploadVars, searchVars, pollVars, clientVars, pageVars, statsVars>>


(* ------------------------- uploadSingleImage --------------------------- *)

Pending == [state |-> "pending", data |-> Null, message |-> ""]
Fulfilled(d) == [state |-> "fulfilled", data |-> d, message |-> ""]
Rejected(m) == [state |-> "rejected", data |-> Null, message |-> m]

\* The bodies the upload endpoint answers a 2xx with: one file was sent, and it was
\* accepted, rejected or skipped as a duplicate.  The job id is named by the file's
\* position in the batch.
UploadResponses(idx) ==
    {[job_id |-> idx + 1, images_accepted |-> c[1], images_rejected |-> c[2],
      duplicates_skipped |-> c[3]] : c \in {<<1, 0, 0>>, <<0, 1, 0>>, <<0, 0, 1>>}}

\* The error strings of a non-2xx JSON body; "" stands for a body without one.
ErrorStrings == {"", "Server error", UPLOAD_CANCELLED}

Unparseable == [parseable |-> FALSE, json |-> Null]
Json(v) == [parseable |-> TRUE, json |-> v]

\* What the service can answer the transfer of file idx with.
Replies(idx) ==
    {[status |-> 200, body |-> Json(d)] : d \in UploadResponses(idx)}
    \cup {[status |-> 200, body |-> Unparseable], [status |-> 500, body |-> Unparseable]}
    \cup {[status |-> 500, body |-> Json([error |-> e])] : e \in ErrorStrings}

\* xhr.onload: the promise after the handler has run.  JSON.parse of an unparseable
\* 2xx body throws inside the handler, which then calls neither resolve nor reject.
OnLoad(reply) ==
    IF reply.status >= 200 /\ reply.status < 300
    THEN IF reply.body.parseable THEN Fulfilled(reply.body.json) ELSE Pending
    ELSE IF reply.body.parseable
         THEN Rejected(IF reply.body.json.error # ""
                       THEN reply.body.json.error ELSE "Upload failed")
         ELSE Rejected("Upload failed")

\* xhr.onerror and xhr.onabort.
OnError == Rejected("Network error")
OnAbort == Rejected(UPLOAD_CANCELLED)

\* The XHR uploadSingleImage creates and sends for file idx (0-based).
NewTransfer(idx) == [file |-> idx, xhr |-> "sent", promise |-> Pending]

(* ----------------------------- useUpload ------------------------------- *)

EmptyAggregate ==
    [job_ids |-> <<>>, images_accepted |-> 0, images_rejected |-> 0,
     duplicates_skipped |-> 0]

\* Mutant of LoopEnters: the cancelled flag is not checked before a file starts.
LoopEntersUnchecked(idx, n, cancelled) == idx < n

\* route.ts:189-190: the loop enters its body for index idx.
LoopEnters(idx, n, cancelled) == idx < n /\ ~cancelled

\* route.ts:194-202: the snapshot emitted before file idx starts.
Snapshot(fs, idx, c, f) ==
    [currentFileIndex |-> idx, totalFiles |-> Len(fs), currentFileLoaded |-> 0,
     currentFileTotal |-> fs[idx + 1].size, currentFileName |-> fs[idx + 1].name,
     filesCompleted |-> c, filesFailed |-> f]

\* route.ts:221-224
Accumulate(agg, data) ==
    [job_ids |-> Append(agg.job_ids, data.job_id),
     images_accepted |-> agg.images_accepted + data.images_accepted,
     images_rejected |-> agg.images_rejected + data.images_rejected,
     duplicates_skipped |-> agg.duplicates_skipped + data.duplicates_skipped]

\* route.ts:229-232
IsCancellation(message) == message = UPLOAD_CANCELLED

\* route.ts:227: the failure counter after a rejected transfer with this message.
FailedAfter(f, message) == f + 1

\* route.ts:237-239
Settled(prog, c, f) ==
    IF prog = Null THEN Null
    ELSE [prog EXCEPT !.filesCompleted = c, !.filesFailed = f]

\* Mutant of Outcome: the failures are reported beside the result.
OutcomeWithFailures(c, f, agg) ==
    [result |-> IF c > 0 THEN agg ELSE Null,
     error |-> IF f > 0 THEN [allFailed |-> f] ELSE Null]

\* Mutant of Outcome: any failure turns the whole batch into an error.
OutcomeAllOrNothing(c, f, agg) ==
    [result |-> IF c > 0 /\ f = 0 THEN agg ELSE Null,
     error |-> IF f > 0 THEN [allFailed |-> f] ELSE Null]

\* route.ts:244-248: what the batch reports.
Outcome(c, f, agg) ==
    [result |-> IF c > 0 THEN agg ELSE Null,
     error |-> IF c > 0 THEN Null ELSE IF f > 0 THEN [allFailed |-> f] ELSE Null]

\* Mutant of Finish: a cancelled batch reports no result, as if the files accepted
\* before cancel() had been rolled back.
FinishRolledBack(idx, c, f, agg, prog, trs) ==
    /\ abortRef' = 0
    /\ result' = IF cancelledRef THEN Null ELSE Outcome(c, f, agg).result
    /\ uploadError' = Outcome(c, f, agg).error
    /\ uploading' = FALSE
    /\ upc' = "done"
    /\ progress' = prog
    /\ transfers' = trs
    /\ i' = idx /\ filesCompleted' = c /\ filesFailed' = f /\ aggregated' = agg

\* route.ts:242-251: the end of upload().
Finish(idx, c, f, agg, prog, trs) ==
    /\ abortRef' = 0
    /\ result' = Outcome(c, f, agg).result
    /\ uploadError' = Outcome(c, f, agg).error
    /\ uploading' = FALSE
    /\ upc' = "done"
    /\ progress' = prog
    /\ transfers' = trs
    /\ i' = idx /\ filesCompleted' = c /\ filesFailed' = f /\ aggregated' = agg

\* route.ts:189-219: the loop head at index idx, up to the await.
LoopHead(fs, idx, c, f, agg, prog, trs, cancelled) ==
    IF LoopEnters(idx, Len(fs), cancelled)
    THEN /\ progress' = Snapshot(fs, idx, c, f)
         /\ transfers' = Append(trs, NewTransfer(idx))
         /\ abortRef' = Len(trs) + 1
         /\ upc' = "awaiting"
         /\ uploading' = TRUE /\ result' = Null /\ uploadError' = Null
         /\ i' = idx /\ filesCompleted' = c /\ filesFailed' = f /\ aggregated' = agg
    ELSE Finish(idx, c, f, agg, prog, trs)

NoCancel == [called |-> FALSE, phase |-> "none", k |-> 0]

\* upload(files, consent), route.ts:172-219, to its first await (or to its end for an
\* empty list).  consent is only copied into the form.  The page offers upload only
\* while no batch is running (part_009:81).
Upload(fs) ==
    /\ ~uploading
    /\ files' = fs
    /\ cancelledRef' = FALSE
    /\ cancelAt' = NoCancel
    /\ LoopHead(fs, 0, 0, 0, EmptyAggregate, progress, <<>>, FALSE)
    /\ UNCHANGED <<searchVars, pollVars, clientVars, pageVars, statsVars>>

Current == transfers[Len(transfers)]

InFlight == upc = "awaiting" /\ Current.xhr = "sent"

\* xhr.upload.onprogress, api.ts:89-93 and route.ts:209-215.
XhrProgress(loaded, total) ==
    /\ InFlight
    /\ progress' = IF progress = Null THEN Null
                   ELSE [progress EXCEPT !.currentFileLoaded = loaded,
                                         !.currentFileTotal = total]
    /\ UNCHANGED <<uploading, uploadError, result, abortRef, cancelledRef, files, i,
                   filesCompleted, filesFailed, aggregated, upc, transfers, cancelAt>>
    /\ UNCHANGED <<searchVars, pollVars, clientVars, pageVars, statsVars>>

\* xhr.onload, api.ts:94-105.
XhrLoad(reply) ==
    /\ InFlight
    /\ transfers' = [transfers EXCEPT ![Len(transfers)] =
                        [@ EXCEPT !.xhr = "loaded", !.promise = OnLoad(reply)]]
    /\ UNCHANGED <<uploading, uploadError, result, progress, abortRef, cancelledRef,
                   files, i, filesCompleted, filesFailed, aggregated, upc, cancelAt>>
    /\ UNCHANGED <<searchVars, pollVars, clientVars, pageVars, statsVars>>

\* xhr.onerror, api.ts:106.
XhrError ==
    /\ InFlight
    /\ transfers' = [transfers EXCEPT ![Len(transfers)] =
                        [@ EXCEPT !.xhr = "errored", !.promise = OnError]]
    /\ UNCHANGED <<uploading, uploadError, result, progress, abortRef, cancelledRef,
                   files, i, filesCompleted, filesFailed, aggregated, upc, cancelAt>>
    /\ UNCHANGED <<searchVars, pollVars, clientVars, pageVars, statsVars>>

\* Mutant of Abort: the abort handle does not reach the XHR.
AbortNothing(t) == t

\* xhr.abort(), api.ts:113 and 107: an XHR that is still sent fires abort; one that is
\* done fires nothing.
Abort(t) ==
    IF t.xhr = "sent" THEN [t EXCEPT !.xhr = "aborted", !.promise = OnAbort] ELSE t

\* Where the running batch is when cancel() is called.
Phase ==
    IF upc # "awaiting" THEN "none"
    ELSE IF Current.xhr = "sent" THEN "inflight"
    ELSE IF Current.promise.state = "pending" THEN "hung"
    ELSE "gap"

\* cancel(), route.ts:256-259.
Cancel ==
    /\ cancelledRef' = TRUE
    /\ transfers' = IF abortRef # 0
                    THEN [transfers EXCEPT ![abortRef] = Abort(@)]
                    ELSE transfers
    /\ cancelAt' = IF cancelAt.called \/ upc # "awaiting" THEN cancelAt
                   ELSE [called |-> TRUE, phase |-> Phase, k |-> Len(transfers)]
    /\ UNCHANGED <<uploading, uploadError, result, progress, abortRef, files, i,
                   filesCompleted, filesFailed, aggregated, upc>>
    /\ UNCHANGED <<searchVars, pollVars, clientVars, pageVars, statsVars>>

\* Mutant of Awaited: upload() goes on without awaiting the promise.
AwaitedAtOnce(p) == TRUE

\* route.ts:219: the await is over once the promise has settled.
Awaited(p) == p.state # "pending"

\* Mutant of UploadResume: a file whose transfer failed is sent once more.
UploadResumeRetrying ==
    /\ upc = "awaiting"
    /\ Awaited(Current.promise)
    /\ UNCHANGED <<files, cancelledRef, cancelAt>>
    /\ UNCHANGED <<searchVars, pollVars, clientVars, pageVars, statsVars>>
    /\ LET p == Current.promise
           again == Cardinality({k \in DOMAIN transfers : transfers[k].file = i}) = 1
       IN
       IF p.state = "fulfilled"
       THEN LET agg == Accumulate(aggregated, p.data)
                c == filesCompleted + 1
            IN LoopHead(files, i + 1, c, filesFailed, agg,
                        Settled(progress, c, filesFailed), transfers, cancelledRef)
       ELSE LET f == FailedAfter(filesFailed, p.message) IN
            IF IsCancellation(p.message)
            THEN Finish(i, filesCompleted, f, aggregated, progress, transfers)
            ELSE LoopHead(files, IF again THEN i ELSE i + 1, filesCompleted, f,
                          aggregated, Settled(progress, filesCompleted, f), transfers,
                          cancelledRef)

\* upload() resumes after `await promise` (route.ts:219-240), runs to the next await
\* or to its end.
UploadResumeCall ==
    /\ upc = "awaiting"
    /\ Awaited(Current.promise)
    /\ UNCHANGED <<files, cancelledRef, cancelAt>>
    /\ UNCHANGED <<searchVars, pollVars, clientVars, pageVars>>
    /\ LET p == Current.promise IN
       IF p.state = "fulfilled"
       THEN LET agg == Accumulate(aggregated, p.data)
                c == filesCompleted + 1
            IN LoopHead(files, i + 1, c, filesFailed, agg,
                        Settled(progress, c, filesFailed), transfers, cancelledRef)
       ELSE LET f == FailedAfter(filesFailed, p.message) IN
            IF IsCancellation(p.message)
            THEN Finish(i, filesCompleted, f, aggregated, progress, transfers)
            ELSE LoopHead(files, i + 1, filesCompleted, f, aggregated,
                          Settled(progress, filesCompleted, f), transfers, cancelledRef)

\* upload() resuming under an owner that keeps no state of its own.
UploadResume == UploadResumeCall /\ UNCHANGED statsVars

(* ------------------------ localStorage and JSON ------------------------- *)

RECURSIVE Join(_)
\* Array.prototype.join(","), and the items of JSON.stringify of an array of strings:
\* the items with a "," between neighbours, as a sequence of tokens.
Join(ids) ==
    IF Len(ids) = 0 THEN <<>>
    ELSE IF Len(ids) = 1 THEN <<ids[1]>>
    ELSE <<ids[1], ",">> \o Join(Tail(ids))

\* The items of a comma-separated token sequence.
Split(text) == [k \in 1..((Len(text) + 1) \div 2) |-> text[2 * k - 1]]

\* JSON.stringify([...ids]), route.ts:46.
Stringify(ids) == <<"[">> \o Join(ids) \o <<"]">>

\* JSON.parse of a text Stringify wrote, route.ts:34.
Parse(text) == Split(SubSeq(text, 2, Len(text) - 1))

RECURSIVE NewSet(_)
\* new Set(list): the list without its repeated items, first occurrences kept in order.
NewSet(list) ==
    IF list = <<>> THEN <<>>
    ELSE <<Head(list)>> \o SelectSeq(NewSet(Tail(list)), LAMBDA y : y # Head(list))

\* route.ts:32, 45: the localStorage key of an event.
StorageKey(e) == <<HIDDEN_IDS_KEY, e>>

StorageKeys == {StorageKey(e) : e \in EventIds}

\* Mutant of loadHiddenIds: a session starts with nothing hidden.
LoadNothing(e) == <<>>

\* loadHiddenIds, route.ts:30-40.
loadHiddenIds(e) ==
    LET stored == storage[StorageKey(e)]
    IN IF stored # <<>> THEN NewSet(Parse(stored)) ELSE <<>>

\* Mutant of saveHiddenIds: the identifiers are merged into what the key holds.
saveHiddenIdsMerged(e, ids) ==
    LET stored == storage[StorageKey(e)]
        kept == IF stored # <<>> THEN Parse(stored) ELSE <<>>
    IN [storage EXCEPT ![StorageKey(e)] = Stringify(NewSet(kept \o ids))]

\* saveHiddenIds, route.ts:42-51: localStorage after the call.
saveHiddenIds(e, ids) == [storage EXCEPT ![StorageKey(e)] = Stringify(ids)]

(* ----------------------------- useSearch ------------------------------- *)

\* The selfie hash the service computes for a selfie.
HashOf(selfie) == [hash |-> selfie]

\* part_000:49-52: the feedback_stats of a response, three of this guest's marks
\* counted when feedback re-ranked the matches and none otherwise.
FeedbackStats(fa) ==
    [personal_feedback_count |-> IF fa THEN 3 ELSE 0,
     total_feedback_count |-> IF fa THEN 3 ELSE 0]

\* The SearchResponse bodies the service can answer a search for this selfie with:
\* the images matched, the hash of the selfie, whether feedback re-ranked the matches.
SearchResponses(selfie) ==
    {[results |-> r, selfie_hash |-> HashOf(selfie), feedback_applied |-> fa,
      feedback_stats |-> FeedbackStats(fa)] :
        r \in {{}, ImageIds}, fa \in BOOLEAN}

\* api.ts:27-29 and route.ts:104-105: the message search() surfaces for a non-2xx
\* answer whose body carries this error string ("" for none).
SearchErrorMessage(e) == IF e # "" THEN e ELSE "Request failed"

\* route.ts:104-106: the error state after a failure with this message.
ErrorShown(message) == [message |-> message]

\* How a searchFaces call can settle.
Outcomes(selfie) ==
    {[ok |-> TRUE, data |-> d, message |-> ""] : d \in SearchResponses(selfie)}
    \cup {[ok |-> FALSE, data |-> Null, message |-> SearchErrorMessage(e)] :
            e \in {"", "No face found"}}

\* One success and one failure: the answers of the specification that explores the
\* exclusion set, where no step reads an answer to decide what is sent or stored.
PlainOutcomes(selfie) ==
    {[ok |-> TRUE, data |-> [results |-> {}, selfie_hash |-> HashOf(selfie),
                             feedback_applied |-> FALSE,
                             feedback_stats |-> FeedbackStats(FALSE)], message |-> ""],
     [ok |-> FALSE, data |-> Null, message |-> SearchErrorMessage("")]}

\* Mutant of AddToSet: the identifier is appended without the Set.
AddToList(prev, imageId) == Append(prev, imageId)

\* route.ts:69: new Set([...prev, imageId]).
AddToSet(prev, imageId) == NewSet(Append(prev, imageId))

\* Mutant of MergeExcluded: the lists are concatenated without the Set.
MergeConcatenated(hidden, explicit) == hidden \o explicit

\* route.ts:87-90: new Set([...hiddenIds, ...(excludedImageIds || [])]).
MergeExcluded(hidden, explicit) == NewSet(hidden \o explicit)

NoField == [present |-> FALSE, value |-> <<>>]

\* route.ts:97 and api.ts:151-153: the excluded_image_ids field of the form.
ExcludedField(all) ==
    IF Len(all) > 0 THEN [present |-> TRUE, value |-> Join(all)] ELSE NoField

\* The second tab while it is closed.
NoTab == [open |-> FALSE, eventId |-> "", hiddenIds |-> <<>>]

NoLatest == [state |-> "none", outcome |-> Null, overtaken |-> FALSE]

\* A page load (or reload) for event e: useSearch(e) mounts (route.ts:54-61) and its effect saves
\* the loaded set (route.ts:64-66).  The requests of the page before are gone, and
\* the page's own state is as new (find/page.tsx:32-41).
StartSession(e) ==
    /\ eventId' = e
    /\ searching' = FALSE /\ searchError' = Null /\ results' = Null
    /\ selfieHash' = Null /\ feedbackApplied' = FALSE
    /\ hiddenIds' = loadHiddenIds(e)
    /\ storage' = saveHiddenIds(e, hiddenIds')
    /\ pending' = <<>>
    /\ lastRequest' = Null
    /\ latest' = NoLatest
    /\ reAdded' = FALSE
    /\ feedback' = <<>>
    /\ lastOp' = "StartSession"
    /\ searchQuery' = NoQuery /\ lastSelfieRef' = NoSelfie
    /\ smartResults' = Null /\ smartSearching' = FALSE /\ smartError' = Null
    /\ smartPending' = <<>>
    /\ UNCHANGED <<tab2, marked>>
    /\ UNCHANGED <<uploadVars, pollVars, clientVars, statsVars>>

\* addHiddenId(imageId), route.ts:68-70, with the effect of route.ts:64-66.
AddHiddenId(imageId) ==
    /\ hiddenIds' = AddToSet(hiddenIds, imageId)
    /\ storage' = saveHiddenIds(eventId, hiddenIds')
    /\ reAdded' = (\E k \in DOMAIN hiddenIds : hiddenIds[k] = imageId)
    /\ marked' = [marked EXCEPT ![eventId] = @ \cup {imageId}]
    /\ lastOp' = "addHiddenId"
    /\ UNCHANGED <<eventId, searching, searchError, results, selfieHash,
                   feedbackApplied, pending, lastRequest, latest, tab2, feedback>>
    /\ UNCHANGED <<uploadVars, pollVars, clientVars, pageVars, statsVars>>

\* Mutant of ClearHiddenIds: the results go with the exclusion set.
ClearHiddenIdsAndResults ==
    /\ hiddenIds' = <<>>
    /\ storage' = saveHiddenIds(eventId, hiddenIds')
    /\ reAdded' = FALSE
    /\ marked' = [marked EXCEPT ![eventId] = {}]
    /\ lastOp' = "clearHiddenIds"
    /\ results' = Null
    /\ UNCHANGED <<eventId, searching, searchError, selfieHash,
                   feedbackApplied, pending, lastRequest, latest, tab2, feedback>>
    /\ UNCHANGED <<uploadVars, pollVars, clientVars, pageVars, statsVars>>

\* clearHiddenIds(), route.ts:72-74, with the effect of route.ts:64-66.
ClearHiddenIds ==
    /\ hiddenIds' = <<>>
    /\ storage' = saveHiddenIds(eventId, hiddenIds')
    /\ reAdded' = FALSE
    /\ marked' = [marked EXCEPT ![eventId] = {}]
    /\ lastOp' = "clearHiddenIds"
    /\ UNCHANGED <<eventId, searching, searchError, results, selfieHash,
                   feedbackApplied, pending, lastRequest, latest, tab2, feedback>>
    /\ UNCHANGED <<uploadVars, pollVars, clientVars, pageVars, statsVars>>

\* useSearch is rendered again with another eventId, route.ts:53: every useState
\* keeps its value (the initialiser of route.ts:59-61 runs on the first render
\* only), and the effect of route.ts:64-66 runs because eventId changed.
SetEventId(e) ==
    /\ e # eventId
    /\ eventId' = e
    /\ storage' = saveHiddenIds(e, hiddenIds)
    /\ reAdded' = FALSE
    /\ lastOp' = "setEventId"
    /\ UNCHANGED <<searching, searchError, results, selfieHash, feedbackApplied,
                   hiddenIds, pending, lastRequest, latest, tab2, feedback, marked>>
    /\ UNCHANGED <<uploadVars, pollVars, clientVars, pageVars, statsVars>>

\* search(selfie, threshold, excludedImageIds), route.ts:76-98, to its await.  The
\* threshold is only copied into the form.
SearchCall(selfie, explicit) ==
    /\ Len(pending) < MaxPending
    /\ searching' = TRUE /\ searchError' = Null /\ results' = Null
    /\ pending' = Append(pending, selfie)
    /\ lastRequest' = [event_id |-> eventId, selfie |-> selfie,
                       excluded_image_ids |->
                           ExcludedField(MergeExcluded(hiddenIds, explicit)),
                       asked |-> Range(hiddenIds) \cup Range(explicit)]
    /\ latest' = [state |-> "outstanding", outcome |-> Null, overtaken |-> FALSE]
    /\ reAdded' = FALSE
    /\ lastOp' = "search"
    /\ UNCHANGED <<eventId, selfieHash, feedbackApplied, hiddenIds, storage,
                   tab2, feedback, marked>>
    /\ UNCHANGED <<uploadVars, pollVars, clientVars, statsVars>>

\* search() called by a page that keeps no search state of its own.
Search(selfie, explicit) == SearchCall(selfie, explicit) /\ UNCHANGED pageVars

Without(seq, k) == SubSeq(seq, 1, k - 1) \o SubSeq(seq, k + 1, Len(seq))

\* Mutant of SearchSettles: the selfie hash of the session's first answer is kept.
SearchSettlesFirstHash(k, o) ==
    /\ k \in DOMAIN pending
    /\ pending' = Without(pending, k)
    /\ IF o.ok
       THEN /\ results' = o.data
            /\ selfieHash' = IF selfieHash = Null THEN o.data.selfie_hash ELSE selfieHash
            /\ feedbackApplied' = o.data.feedback_applied
            /\ UNCHANGED searchError
       ELSE /\ searchError' = ErrorShown(o.message)
            /\ UNCHANGED <<results, selfieHash, feedbackApplied>>
    /\ searching' = FALSE
    /\ latest' = latest
    /\ reAdded' = FALSE
    /\ lastOp' = IF o.ok THEN "search succeeded" ELSE "search failed"
    /\ UNCHANGED <<eventId, hiddenIds, storage, lastRequest, tab2, feedback, marked>>
    /\ UNCHANGED <<uploadVars, pollVars, clientVars, pageVars, statsVars>>

\* Mutant of SearchSettles: of a response only the matches are kept.
SearchSettlesKeepingMatches(k, o) ==
    /\ k \in DOMAIN pending
    /\ pending' = Without(pending, k)
    /\ IF o.ok
       THEN /\ results' = [o.data EXCEPT !.feedback_applied = FALSE,
                                        !.feedback_stats = FeedbackStats(FALSE)]
            /\ selfieHash' = o.data.selfie_hash
            /\ feedbackApplied' = FALSE
            /\ UNCHANGED searchError
       ELSE /\ searchError' = ErrorShown(o.message)
            /\ UNCHANGED <<results, selfieHash, feedbackApplied>>
    /\ searching' = FALSE
    /\ latest' = latest
    /\ reAdded' = FALSE
    /\ lastOp' = IF o.ok THEN "search succeeded" ELSE "search failed"
    /\ UNCHANGED <<eventId, hiddenIds, storage, lastRequest, tab2, feedback, marked>>
    /\ UNCHANGED <<uploadVars, pollVars, clientVars, pageVars, statsVars>>

\* The k-th outstanding searchFaces call settles and search() resumes, route.ts:99-110.
\* Nothing reads the session between the answer and the resumption, so they are one
\* step.
SearchSettles(k, o) ==
    /\ k \in DOMAIN pending
    /\ pending' = Without(pending, k)
    /\ IF o.ok
       THEN /\ results' = o.data
            /\ selfieHash' = o.data.selfie_hash
            /\ feedbackApplied' = o.data.feedback_applied
            /\ UNCHANGED searchError
       ELSE /\ searchError' = ErrorShown(o.message)
            /\ UNCHANGED <<results, selfieHash, feedbackApplied>>
    /\ searching' = FALSE
    /\ latest' = IF latest.state = "outstanding"
                 THEN IF k = Len(pending)
                      THEN [state |-> "settled", outcome |-> o, overtaken |-> FALSE]
                      ELSE latest
                 ELSE [latest EXCEPT !.overtaken = (latest.state = "settled")]
    /\ reAdded' = FALSE
    /\ lastOp' = IF o.ok THEN "search succeeded" ELSE "search failed"
    /\ UNCHANGED <<eventId, hiddenIds, storage, lastRequest, tab2, feedback, marked>>
    /\ UNCHANGED <<uploadVars, pollVars, clientVars, pageVars, statsVars>>

\* clearResults(), route.ts:115-118.
ClearResultsCall ==
    /\ results' = Null /\ searchError' = Null
    /\ latest' = IF latest.state = "settled" THEN NoLatest ELSE latest
    /\ reAdded' = FALSE
    /\ lastOp' = "clearResults"
    /\ UNCHANGED <<eventId, searching, selfieHash, feedbackApplied, hiddenIds,
                   storage, pending, lastRequest, tab2, feedback, marked>>
    /\ UNCHANGED <<uploadVars, pollVars, clientVars, statsVars>>

\* clearResults() called by a page that keeps no search state of its own.
ClearResults == ClearResultsCall /\ UNCHANGED pageVars

(* ------------------------------ find page ------------------------------ *)

\* Mutant of HandleNotMe: the image is hidden only when no feedback is sent for it.
HandleNotMeAwaiting(imageId) ==
    /\ selfieHash # Null => Len(feedback) < MaxFeedback
    /\ hiddenIds' = IF selfieHash # Null THEN hiddenIds ELSE AddToSet(hiddenIds, imageId)
    /\ storage' = saveHiddenIds(eventId, hiddenIds')
    /\ reAdded' = (\E k \in DOMAIN hiddenIds : hiddenIds[k] = imageId)
    /\ marked' = [marked EXCEPT ![eventId] = @ \cup {imageId}]
    /\ feedback' = IF selfieHash # Null
                   THEN Append(feedback, [event_id |-> eventId, image_id |-> imageId,
                                          selfie_hash |-> selfieHash])
                   ELSE feedback
    /\ lastOp' = "handleNotMe"
    /\ UNCHANGED <<eventId, searching, searchError, results, selfieHash,
                   feedbackApplied, pending, lastRequest, latest, tab2>>
    /\ UNCHANGED <<uploadVars, pollVars, clientVars, pageVars, statsVars>>

\* find/page.tsx:104: selfieHash || smartResults?.selfie_hash.
FeedbackHash ==
    IF selfieHash # Null THEN selfieHash
    ELSE IF smartResults # Null THEN smartResults.selfie_hash
    ELSE Null

\* handleNotMe(imageId), find/page.tsx:101-110: addHiddenId, then the feedback
\* request when a selfie hash is known, not awaited.
HandleNotMe(imageId) ==
    /\ FeedbackHash # Null => Len(feedback) < MaxFeedback
    /\ hiddenIds' = AddToSet(hiddenIds, imageId)
    /\ storage' = saveHiddenIds(eventId, hiddenIds')
    /\ reAdded' = (\E k \in DOMAIN hiddenIds : hiddenIds[k] = imageId)
    /\ marked' = [marked EXCEPT ![eventId] = @ \cup {imageId}]
    /\ feedback' = IF FeedbackHash # Null
                   THEN Append(feedback, [event_id |-> eventId, image_id |-> imageId,
                                          selfie_hash |-> FeedbackHash])
                   ELSE feedback
    /\ lastOp' = "handleNotMe"
    /\ UNCHANGED <<eventId, searching, searchError, results, selfieHash,
                   feedbackApplied, pending, lastRequest, latest, tab2>>
    /\ UNCHANGED <<uploadVars, pollVars, clientVars, pageVars, statsVars>>

\* The k-th outstanding submitSearchFeedback call settles, find/page.tsx:106: its
\* answer is dropped and its failure is caught by .catch(() => {}).
FeedbackSettles(k, ok) ==
    /\ k \in DOMAIN feedback
    /\ feedback' = Without(feedback, k)
    /\ lastOp' = IF ok THEN "feedback answered" ELSE "feedback failed"
    /\ reAdded' = FALSE
    /\ UNCHANGED <<eventId, searching, searchError, results, selfieHash,
                   feedbackApplied, hiddenIds, storage, pending, lastRequest, latest,
                   tab2, marked>>
    /\ UNCHANGED <<uploadVars, pollVars, clientVars, pageVars, statsVars>>

\* The text queries typed into the find page, trimmed.
Queries == {NoQuery, "beach"}

\* What /search/smart answers a request with: the images found, the mode (hybrid
\* with a selfie, metadata without) and, for a selfie, its hash (the field that
\* find/page.tsx:104 reads).
SmartSearchResponses(selfie) ==
    {[results |-> r, mode |-> IF selfie = NoSelfie THEN "metadata" ELSE "hybrid",
      selfie_hash |-> IF selfie = NoSelfie THEN Null ELSE HashOf(selfie)] :
        r \in {{}, ImageIds}}

\* The answers to a smartSearch call: a response, or a failure of request().
SmartOutcomes(call) ==
    {[ok |-> TRUE, data |-> d, message |-> ""] : d \in SmartSearchResponses(call.selfie)}
    \cup {[ok |-> FALSE, data |-> Null, message |-> "Request failed"]}

\* find/page.tsx:44
isSearching == searching \/ smartSearching

\* find/page.tsx:144
activeResults == IF smartResults # Null THEN smartResults ELSE results

\* find/page.tsx:191
hasSelfie == lastSelfieRef # NoSelfie

\* Mutant of Shown: the results are rendered without the filter on hiddenIds.
ShownUnfiltered(imageId) ==
    /\ activeResults # Null
    /\ imageId \in activeResults.results

\* find/page.tsx:146-162, 184: the image is among the filtered results shown.
Shown(imageId) ==
    /\ activeResults # Null
    /\ imageId \in activeResults.results
    /\ \A k \in DOMAIN hiddenIds : hiddenIds[k] # imageId

\* find/page.tsx:183, 396, 434: the results view is rendered when there are active
\* results, the capture view otherwise, whose controls give way to a spinner while
\* isSearching.
ResultsView == activeResults # Null
CaptureView == activeResults = Null /\ ~isSearching

\* smartSearch(eventId, {query, selfie, ...}), api.ts:182-214, to its await.
SmartSearchCall(selfie) ==
    /\ Len(smartPending) < MaxPending
    /\ smartPending' = Append(smartPending, [query |-> searchQuery, selfie |-> selfie])
    /\ smartSearching' = TRUE

\* The guest types into the query field of the capture view, find/page.tsx:38.
SetSearchQuery(q) ==
    /\ CaptureView
    /\ q # searchQuery
    /\ searchQuery' = q
    /\ UNCHANGED <<lastSelfieRef, smartResults, smartSearching, smartError, smartPending>>
    /\ UNCHANGED <<uploadVars, searchVars, pollVars, clientVars, statsVars>>

\* handleSelfie(blob), find/page.tsx:47-75, to its await: a smart search when a
\* query is typed, the face search otherwise.
HandleSelfie(blob) ==
    /\ CaptureView
    /\ lastSelfieRef' = blob
    /\ smartError' = Null
    /\ smartResults' = Null
    /\ UNCHANGED searchQuery
    /\ IF searchQuery # NoQuery
       THEN /\ SmartSearchCall(blob)
            /\ UNCHANGED <<uploadVars, searchVars, pollVars, clientVars, statsVars>>
       ELSE /\ SearchCall(blob, <<>>)
            /\ UNCHANGED <<smartSearching, smartPending>>

\* handleTextSearch, find/page.tsx:77-99, to its await.
HandleTextSearch ==
    /\ CaptureView
    /\ searchQuery # NoQuery
    /\ SmartSearchCall(NoSelfie)
    /\ smartError' = Null
    /\ smartResults' = Null
    /\ UNCHANGED <<searchQuery, lastSelfieRef>>
    /\ UNCHANGED <<uploadVars, searchVars, pollVars, clientVars, statsVars>>

\* handleResearch, find/page.tsx:112-133, to its await: the button is in the
\* results view, with a selfie, and disabled while isSearching (298, 324).
HandleResearch ==
    /\ ResultsView /\ hasSelfie /\ ~isSearching
    /\ UNCHANGED <<searchQuery, lastSelfieRef, smartResults>>
    /\ IF smartResults # Null /\ searchQuery # NoQuery
       THEN /\ SmartSearchCall(lastSelfieRef)
            /\ smartError' = Null
            /\ UNCHANGED <<uploadVars, searchVars, pollVars, clientVars, statsVars>>
       ELSE /\ SearchCall(lastSelfieRef, <<>>)
            /\ UNCHANGED <<smartSearching, smartError, smartPending>>

\* The k-th outstanding smartSearch call settles and its handler resumes,
\* find/page.tsx:63-68, 91-96, 124-129.
SmartSearchSettles(k, o) ==
    /\ k \in DOMAIN smartPending
    /\ smartPending' = Without(smartPending, k)
    /\ IF o.ok
       THEN smartResults' = o.data /\ UNCHANGED smartError
       ELSE smartError' = ErrorShown(o.message) /\ UNCHANGED smartResults
    /\ smartSearching' = FALSE
    /\ UNCHANGED <<searchQuery, lastSelfieRef>>
    /\ UNCHANGED <<uploadVars, searchVars, pollVars, clientVars, statsVars>>

\* handleClearAll ("New Search"), find/page.tsx:135-141.
HandleClearAll ==
    /\ ResultsView
    /\ ClearResultsCall
    /\ smartResults' = Null
    /\ smartError' = Null
    /\ searchQuery' = NoQuery
    /\ lastSelfieRef' = NoSelfie
    /\ UNCHANGED <<smartSearching, smartPending>>

(* ------------------------------ second tab ------------------------------ *)

\* The second tab loads the find page of event e: its useSearch(e) mounts, as in
\* StartSession.
Tab2StartSession(e) ==
    /\ tab2' = [open |-> TRUE, eventId |-> e, hiddenIds |-> loadHiddenIds(e)]
    /\ storage' = saveHiddenIds(e, tab2'.hiddenIds)
    /\ lastOp' = "tab2 StartSession"
    /\ reAdded' = FALSE
    /\ UNCHANGED <<eventId, searching, searchError, results, selfieHash,
                   feedbackApplied, hiddenIds, pending, lastRequest, latest,
                   feedback, marked>>
    /\ UNCHANGED <<uploadVars, pollVars, clientVars, pageVars, statsVars>>

\* addHiddenId(imageId) in the second tab, route.ts:64-70.
Tab2AddHiddenId(imageId) ==
    /\ tab2.open
    /\ tab2' = [tab2 EXCEPT !.hiddenIds = AddToSet(@, imageId)]
    /\ storage' = saveHiddenIds(tab2.eventId, tab2'.hiddenIds)
    /\ marked' = [marked EXCEPT ![tab2.eventId] = @ \cup {imageId}]
    /\ lastOp' = "tab2 addHiddenId"
    /\ reAdded' = FALSE
    /\ UNCHANGED <<eventId, searching, searchError, results, selfieHash,
                   feedbackApplied, hiddenIds, pending, lastRequest, latest, feedback>>
    /\ UNCHANGED <<uploadVars, pollVars, clientVars, pageVars, statsVars>>

\* clearHiddenIds() in the second tab, route.ts:64-66, 72-74.
Tab2ClearHiddenIds ==
    /\ tab2.open
    /\ tab2' = [tab2 EXCEPT !.hiddenIds = <<>>]
    /\ storage' = saveHiddenIds(tab2.eventId, tab2'.hiddenIds)
    /\ marked' = [marked EXCEPT ![tab2.eventId] = {}]
    /\ lastOp' = "tab2 clearHiddenIds"
    /\ reAdded' = FALSE
    /\ UNCHANGED <<eventId, searching, searchError, results, selfieHash,
                   feedbackApplied, hiddenIds, pending, lastRequest, latest, feedback>>
    /\ UNCHANGED <<uploadVars, pollVars, clientVars, pageVars, statsVars>>

(* ---------------------------- useJobStatus ------------------------------ *)

JobIds == {"j1", "j2"}

\* The jobId of a poller that has no job: null.
NoJobId == ""

\* part_000:28: the statuses of a job, in the order the service moves through them.
Statuses == {"pending", "processing", "completed", "failed"}

\* part_011:29: the statuses that end the polling.
IsTerminal(status) == status = "completed" \/ status = "failed"

\* The ProcessingJob the service answers a status request for this job with.
JobRecord(id) == [id |-> id, status |-> serverStatus[id]]

\* getJobStatus(id), part_011:14, called by the effect itself (timer 0) or by the
\* callback of an interval timer: the n-th fetch since the jobId was set.  The
\* service reads the job when the request is made; the answer travels for as long
\* as it likes.
NewFetch(id, timer, n) == [jobId |-> id, timer |-> timer, n |-> n, reply |-> JobRecord(id)]

\* poll(), part_011:11-14, to its await: nothing when there is no jobId.
Poll(timer, sofar) ==
    IF jobId' = NoJobId
    THEN UNCHANGED <<fetches, replies>>
    ELSE /\ fetches' = Append(fetches, NewFetch(jobId', timer, Len(sofar) + 1))
         /\ replies' = Append(sofar, serverStatus[jobId'])

\* Room for one more fetch within the bounds.
CanFetch(sofar) == Len(fetches) < MaxInFlight /\ Len(sofar) < MaxFetches

\* Mutant of Cleanup: the effect's cleanup leaves the timer running.
CleanupNothing(running) == running

\* part_011:34: the effect's cleanup, clearInterval(interval).
Cleanup(running) == 0

\* The owner renders the hook with another jobId: the effect of part_011:23-35 is
\* cleaned up and runs again, which polls at once and sets a new interval timer
\* unless the jobId is null.
SetJobId(id) ==
    /\ id # jobId
    /\ jobId' = id
    /\ IF id = NoJobId
       THEN /\ interval' = Cleanup(interval)
            /\ UNCHANGED <<timers, fetches, replies>>
       ELSE /\ timers < MaxRuns /\ CanFetch(<<>>)
            /\ Poll(0, <<>>)
            /\ timers' = timers + 1
            /\ interval' = timers'
    /\ UNCHANGED <<job, pollError, serverStatus, terminal>>
    /\ UNCHANGED <<uploadVars, searchVars, clientVars, pageVars, statsVars>>

\* The interval timer fires, part_011:27-28: its callback calls poll().
Tick ==
    /\ interval # 0
    /\ CanFetch(replies)
    /\ jobId' = jobId
    /\ Poll(interval, replies)
    /\ UNCHANGED <<job, pollError, interval, timers, serverStatus, terminal>>
    /\ UNCHANGED <<uploadVars, searchVars, clientVars, pageVars, statsVars>>

\* Mutant of StopsOn: a fetch that fails stops the timer too.
StopsOnFailureToo(f, data) ==
    f.timer # 0 /\ (data = Null \/ IsTerminal(data.status))

\* part_011:29: whether the timer's callback, resumed with this data (Null after a
\* failure), clears its timer.  The effect drops what its own poll() returns.
StopsOn(f, data) ==
    f.timer # 0 /\ data # Null /\ IsTerminal(data.status)

\* The interval after the callback of fetch f resumed with this data: clearInterval
\* of the callback's own timer, which does nothing to a later one.
IntervalAfter(f, data) ==
    IF StopsOn(f, data) /\ interval = f.timer THEN 0 ELSE interval

\* The k-th outstanding getJobStatus call is answered with the job, part_011:14-16,
\* and the caller of poll() resumes, part_011:28-31.
FetchSettles(k) ==
    /\ k \in DOMAIN fetches
    /\ LET f == fetches[k]
       IN /\ job' = f.reply
          /\ interval' = IntervalAfter(f, f.reply)
          /\ terminal' = IF IsTerminal(f.reply.status)
                          THEN terminal \cup {f.jobId} ELSE terminal
    /\ fetches' = Without(fetches, k)
    /\ UNCHANGED <<jobId, pollError, timers, serverStatus, replies>>
    /\ UNCHANGED <<uploadVars, searchVars, clientVars, pageVars, statsVars>>

\* The k-th outstanding getJobStatus call fails, part_011:17-19, and the caller of
\* poll() resumes with null.
FetchFails(k) ==
    /\ k \in DOMAIN fetches
    /\ pollError' = ErrorShown("Request failed")
    /\ interval' = IntervalAfter(fetches[k], Null)
    /\ fetches' = Without(fetches, k)
    /\ UNCHANGED <<jobId, job, timers, serverStatus, replies, terminal>>
    /\ UNCHANGED <<uploadVars, searchVars, clientVars, pageVars, statsVars>>

\* The service works on a job: pending, then processing, then completed or failed.
ServerAdvance(id) ==
    /\ \/ serverStatus[id] = "pending"
          /\ serverStatus' = [serverStatus EXCEPT ![id] = "processing"]
       \/ serverStatus[id] = "processing"
          /\ \E end \in {"completed", "failed"} :
                serverStatus' = [serverStatus EXCEPT ![id] = end]
    /\ UNCHANGED <<jobId, job, pollError, interval, timers, fetches, replies, terminal>>
    /\ UNCHANGED <<uploadVars, searchVars, clientVars, pageVars, statsVars>>

(* --------------------------- upload page: stats -------------------------- *)

\* part_000:69-76: the fields of EventStats the page reads.
EventStats(images, processed) == [image_count |-> images, processed_count |-> processed]

\* Mutant of ProcessingComplete: an event without images counts as processed.
ProcessingCompleteWhenEmpty(stats) == stats.processed_count >= stats.image_count

\* part_009:32
ProcessingComplete(stats) ==
    stats.processed_count >= stats.image_count /\ stats.image_count > 0

\* Room for one more getEventStats call within the bounds.
CanFetchStats == Len(statsFetches) < MaxInFlight /\ statsIssued < MaxFetches

\* pollProcessing(), part_009:27-29, to its await.  The service reads the event when
\* the request is made; the answer travels for as long as it likes.
PollProcessing ==
    /\ statsFetches' = Append(statsFetches, statsServer)
    /\ statsIssued' = statsIssued + 1

\* The effect of part_009:40-45 after a render in which result or processingDone
\* changed: the cleanup of the effect before, then nothing without a result or when
\* processing is done, else a poll at once and a new interval timer.
StatsEffect(res1, done1) ==
    IF res1 = Null \/ done1
    THEN /\ statsInterval' = FALSE
         /\ UNCHANGED <<statsFetches, statsIssued>>
    ELSE /\ CanFetchStats
         /\ PollProcessing
         /\ statsInterval' = TRUE

\* handleUpload, part_009:47-49, offered while there is no result and no batch
\* running (part_009:81), with files chosen and consent given.
HandleUpload(fs) ==
    /\ result = Null /\ fs # <<>>
    /\ Upload(fs)

\* upload() resumes on the upload page: when it ends with a result the page
\* renders again and its effect runs.
PageUploadResume ==
    /\ UploadResumeCall
    /\ IF result' # result
       THEN StatsEffect(result', processingDone)
       ELSE UNCHANGED <<statsInterval, statsFetches, statsIssued>>
    /\ UNCHANGED <<processedCount, totalImages, processingDone, statsServer,
                   doneReported>>

\* The interval timer fires, part_009:43: pollProcessing().
StatsTick ==
    /\ statsInterval
    /\ CanFetchStats
    /\ PollProcessing
    /\ UNCHANGED <<processedCount, totalImages, processingDone, statsInterval,
                   statsServer, doneReported>>
    /\ UNCHANGED <<uploadVars, searchVars, pollVars, clientVars, pageVars>>

\* The k-th outstanding getEventStats call is answered and pollProcessing resumes,
\* part_009:30-34; when it sets processingDone the effect runs again.
StatsFetchSettles(k) ==
    /\ k \in DOMAIN statsFetches
    /\ LET stats == statsFetches[k]
           done == processingDone \/ ProcessingComplete(stats)
       IN /\ processedCount' = stats.processed_count
          /\ totalImages' = stats.image_count
          /\ processingDone' = done
          /\ doneReported' =
                (doneReported \/ (stats.processed_count >= stats.image_count
                                  /\ stats.image_count > 0))
          /\ IF done # processingDone
             THEN /\ statsInterval' = FALSE
                  /\ statsFetches' = Without(statsFetches, k)
                  /\ UNCHANGED statsIssued
             ELSE /\ statsFetches' = Without(statsFetches, k)
                  /\ UNCHANGED <<statsInterval, statsIssued>>
    /\ UNCHANGED statsServer
    /\ UNCHANGED <<uploadVars, searchVars, pollVars, clientVars, pageVars>>

\* The k-th outstanding getEventStats call fails, part_009:35-37: ignored.
StatsFetchFails(k) ==
    /\ k \in DOMAIN statsFetches
    /\ statsFetches' = Without(statsFetches, k)
    /\ UNCHANGED <<processedCount, totalImages, processingDone, statsInterval,
                   statsServer, statsIssued, doneReported>>
    /\ UNCHANGED <<uploadVars, searchVars, pollVars, clientVars, pageVars>>

\* The service registers the uploaded images of the event, then processes them one
\* by one.
StatsServerAdvance ==
    /\ \/ /\ statsServer.image_count = 0 /\ result # Null
          /\ result.images_accepted > 0
          /\ statsServer' = EventStats(result.images_accepted, 0)
       \/ /\ statsServer.processed_count < statsServer.image_count
          /\ statsServer' = [statsServer EXCEPT !.processed_count = @ + 1]
    /\ UNCHANGED <<processedCount, totalImages, processingDone, statsInterval,
                   statsFetches, statsIssued, doneReported>>
    /\ UNCHANGED <<uploadVars, searchVars, pollVars, clientVars, pageVars>>

(* ------------------------------- request -------------------------------- *)

\* The responses fetch() resolves with: the status, the status text ("" is what an
\* HTTP/2 connection gives) and the body.  A JSON body has an error string and a
\* payload; "" stands for a body without the field.
HttpStatuses == {200, 201, 404, 500}
StatusTexts == {"", "Internal Server Error"}
JsonBodies == [error : {"", "Event not found"}, data : {"", "d1", "d2"}]
Responses ==
    [status : HttpStatuses, statusText : StatusTexts,
     body : {Unparseable} \cup {Json(v) : v \in JsonBodies}]

\* Response.ok
Ok(r) == r.status >= 200 /\ r.status < 300

Fetching == [kind |-> "pending"]
Returned(v) == [kind |-> "returned", value |-> v]
ApiError(m, s) == [kind |-> "ApiError", message |-> m, status |-> s]
\* What res.json() rejects with for a body that is not JSON.
SyntaxError == [kind |-> "SyntaxError"]
\* What fetch() rejects with when no response arrives.
TypeError == [kind |-> "TypeError"]

\* api.ts:27-32: what request() settles with once fetch() has resolved with r.
RequestSettles(r) ==
    IF ~Ok(r)
    THEN LET data == IF r.body.parseable THEN r.body.json
                     ELSE [error |-> r.statusText]
         IN ApiError(IF data.error # "" THEN data.error ELSE "Request failed",
                     r.status)
    ELSE IF r.body.parseable THEN Returned(r.body.json) ELSE SyntaxError

\* api.ts:16-25: request() is called, no call of it being under way, and awaits
\* fetch().
Request ==
    /\ requested # Fetching
    /\ res' = Null
    /\ requested' = Fetching
    /\ UNCHANGED <<uploadVars, searchVars, pollVars, pageVars, statsVars>>

\* fetch() resolves with r and request() runs to its end.
FetchResolves(r) ==
    /\ requested = Fetching
    /\ res' = r
    /\ requested' = RequestSettles(r)
    /\ UNCHANGED <<uploadVars, searchVars, pollVars, pageVars, statsVars>>

\* fetch() rejects: the rejection passes through request().
FetchRejects ==
    /\ requested = Fetching
    /\ res' = Null
    /\ requested' = TypeError
    /\ UNCHANGED <<uploadVars, searchVars, pollVars, pageVars, statsVars>>

(* --------------------------- specifications ---------------------------- *)

UploadInit ==
    /\ uploading = FALSE /\ uploadError = Null /\ result = Null /\ progress = Null
    /\ abortRef = 0 /\ cancelledRef = FALSE
    /\ files = <<>> /\ i = 0 /\ filesCompleted = 0 /\ filesFailed = 0
    /\ aggregated = EmptyAggregate /\ upc = "idle"
    /\ transfers = <<>>
    /\ cancelAt = NoCancel

UploadNext ==
    \/ \E fs \in FileLists : Upload(fs)
    \/ InFlight /\ \E e \in ProgressEvents(files[i + 1].size) : XhrProgress(e[1], e[2])
    \/ \E reply \in Replies(i) : XhrLoad(reply)
    \/ XhrError
    \/ Cancel
    \/ UploadResume

\* The first page load on a device whose localStorage holds nothing for the app.
SearchInit ==
    /\ eventId \in EventIds
    /\ searching = FALSE /\ searchError = Null /\ results = Null
    /\ selfieHash = Null /\ feedbackApplied = FALSE
    /\ hiddenIds = <<>>
    /\ storage = [key \in StorageKeys |->
                    IF key = StorageKey(eventId) THEN Stringify(<<>>) ELSE <<>>]
    /\ pending = <<>>
    /\ lastRequest = Null
    /\ latest = NoLatest
    /\ reAdded = FALSE
    /\ tab2 = NoTab
    /\ feedback = <<>>
    /\ marked = [e \in EventIds |-> {}]
    /\ lastOp = "load"

\* The session with every selfie and every answer, and one identifier to hide.
QueryNext ==
    \/ StartSession(eventId)
    \/ AddHiddenId(ToString(1))
    \/ ClearHiddenIds
    \/ \E selfie \in Selfies : Search(selfie, <<>>)
    \/ \E k \in DOMAIN pending : \E o \in Outcomes(pending[k]) : SearchSettles(k, o)
    \/ ClearResults

\* The session with every identifier and every explicit exclusion list, one selfie
\* and the plain answers, searched again only once the last search has settled (the
\* pages disable their search controls while isSearching).
ExclusionNext ==
    \/ StartSession(eventId)
    \/ \E imageId \in ImageIds : AddHiddenId(imageId)
    \/ ClearHiddenIds
    \/ pending = <<>> /\ \E explicit \in ExplicitLists : Search("s1", explicit)
    \/ \E k \in DOMAIN pending : \E o \in PlainOutcomes(pending[k]) : SearchSettles(k, o)
    \/ ClearResults

\* The find page: searches one at a time (its controls are disabled while
\* isSearching), the "not me" action on one image and its feedback requests.
FindNext ==
    \/ StartSession(eventId)
    \/ HandleNotMe(ToString(1))
    \/ \E k \in DOMAIN feedback, ok \in BOOLEAN : FeedbackSettles(k, ok)
    \/ ClearHiddenIds
    \/ pending = <<>> /\ \E selfie \in Selfies : Search(selfie, <<>>)
    \/ \E k \in DOMAIN pending : \E o \in Outcomes(pending[k]) : SearchSettles(k, o)
    \/ ClearResults

\* The device with one tab: page loads and reloads for either event.
ReloadNext ==
    \/ \E e \in EventIds : StartSession(e)
    \/ \E imageId \in ImageIds : AddHiddenId(imageId)
    \/ ClearHiddenIds

\* The device: page loads and reloads for either event, and a second tab on the
\* event of the first, in which one identifier is hidden.
PersistNext ==
    \/ \E e \in EventIds : StartSession(e)
    \/ \E imageId \in ImageIds : AddHiddenId(imageId)
    \/ ClearHiddenIds
    \/ Tab2StartSession(eventId)
    \/ Tab2AddHiddenId(ToString(1))
    \/ Tab2ClearHiddenIds

\* The find page with its smart search: a query typed or not, selfies, searches
\* one at a time as its views allow, "not me" on a displayed image while a selfie
\* is held (find/page.tsx:359), "Re-search" and "New Search".
PageNext ==
    \/ StartSession(eventId)
    \/ \E q \in Queries : SetSearchQuery(q)
    \/ \E blob \in Selfies : HandleSelfie(blob)
    \/ HandleTextSearch
    \/ HandleResearch
    \/ HandleClearAll
    \/ \E k \in DOMAIN pending : \E o \in Outcomes(pending[k]) : SearchSettles(k, o)
    \/ \E k \in DOMAIN smartPending :
          \E o \in SmartOutcomes(smartPending[k]) : SmartSearchSettles(k, o)
    \/ \E imageId \in ImageIds : Shown(imageId) /\ hasSelfie /\ HandleNotMe(imageId)
    \/ \E k \in DOMAIN feedback, ok \in BOOLEAN : FeedbackSettles(k, ok)

\* Two tabs on one event, every identifier hidden and shown again in either.
TabsNext ==
    \/ StartSession(eventId)
    \/ \E imageId \in ImageIds : AddHiddenId(imageId)
    \/ ClearHiddenIds
    \/ Tab2StartSession(eventId)
    \/ \E imageId \in ImageIds : Tab2AddHiddenId(imageId)
    \/ Tab2ClearHiddenIds

\* A session whose owner changes its event while it lives: page loads, the event
\* changed in place, identifiers hidden and shown again, searches one at a time
\* without explicit exclusions.
RouteNext ==
    \/ \E e \in EventIds : StartSession(e)
    \/ \E e \in EventIds : SetEventId(e)
    \/ \E imageId \in ImageIds : AddHiddenId(imageId)
    \/ ClearHiddenIds
    \/ pending = <<>> /\ Search("s1", <<>>)
    \/ \E k \in DOMAIN pending : \E o \in PlainOutcomes(pending[k]) : SearchSettles(k, o)

SearchNext ==
    \/ \E e \in EventIds : StartSession(e)
    \/ \E imageId \in ImageIds : AddHiddenId(imageId)
    \/ ClearHiddenIds
    \/ \E selfie \in Selfies, explicit \in ExplicitLists : Search(selfie, explicit)
    \/ \E k \in DOMAIN pending : \E o \in Outcomes(pending[k]) : SearchSettles(k, o)
    \/ ClearResults
    \/ \E imageId \in ImageIds : HandleNotMe(imageId)
    \/ \E k \in DOMAIN feedback, ok \in BOOLEAN : FeedbackSettles(k, ok)
    \/ \E e \in EventIds : Tab2StartSession(e)
    \/ \E imageId \in ImageIds : Tab2AddHiddenId(imageId)
    \/ Tab2ClearHiddenIds

\* The hook mounted without a job, and the jobs of the service just created.
PollInit ==
    /\ jobId = NoJobId /\ job = Null /\ pollError = Null
    /\ interval = 0 /\ timers = 0
    /\ fetches = <<>>
    /\ serverStatus = [id \in JobIds |-> "pending"]
    /\ replies = <<>>
    /\ terminal = {}

\* The poller of one job: its owner gives it the job, takes it away and gives it
\* again.
PollNext ==
    \/ \E id \in {"j1", NoJobId} : SetJobId(id)
    \/ Tick
    \/ \E k \in DOMAIN fetches : FetchSettles(k)
    \/ \E k \in DOMAIN fetches : FetchFails(k)
    \/ ServerAdvance("j1")

\* The poller whose owner moves it from job to job.
SwitchNext ==
    \/ \E id \in JobIds \cup {NoJobId} : SetJobId(id)
    \/ Tick
    \/ \E k \in DOMAIN fetches : FetchSettles(k)
    \/ \E k \in DOMAIN fetches : FetchFails(k)
    \/ \E id \in JobIds : ServerAdvance(id)

\* No request made yet.
RequestInit == res = Null /\ requested = Null

\* find/page.tsx:35-41: the find page as mounted.
PageInit ==
    /\ searchQuery = NoQuery /\ lastSelfieRef = NoSelfie
    /\ smartResults = Null /\ smartSearching = FALSE /\ smartError = Null
    /\ smartPending = <<>>

\* Calls of request(), one at a time, with every response.
RequestNext ==
    \/ Request
    \/ \E r \in Responses : FetchResolves(r)
    \/ FetchRejects

\* part_009:23-25: the upload page as mounted, for an event without images.
StatsInit ==
    /\ processedCount = 0 /\ totalImages = 0 /\ processingDone = FALSE
    /\ statsInterval = FALSE /\ statsFetches = <<>>
    /\ statsServer = EventStats(0, 0)
    /\ statsIssued = 0 /\ doneReported = FALSE

\* The upload page: one batch of up to two files, its transfers answered in every
\* way, then the polling of the event's statistics.
StatsNext ==
    \/ \E fs \in {l \in FileLists : Len(l) <= MaxBatch} : HandleUpload(fs)
    \/ \E reply \in Replies(i) : XhrLoad(reply)
    \/ XhrError
    \/ uploading /\ Cancel
    \/ PageUploadResume
    \/ StatsTick
    \/ \E k \in DOMAIN statsFetches : StatsFetchSettles(k)
    \/ \E k \in DOMAIN statsFetches : StatsFetchFails(k)
    \/ StatsServerAdvance

Init == UploadInit /\ SearchInit /\ PollInit /\ RequestInit /\ PageInit /\ StatsInit

Next ==
    UploadNext \/ SearchNext \/ RouteNext \/ SwitchNext \/ RequestNext \/ PageNext
        \/ StatsNext

UploadSpec == Init /\ [][UploadNext]_vars

QuerySpec == Init /\ [][QueryNext]_vars

ExclusionSpec == Init /\ [][ExclusionNext]_vars

FindSpec == Init /\ [][FindNext]_vars

ReloadSpec == Init /\ [][ReloadNext]_vars

PersistSpec == Init /\ [][PersistNext]_vars

PollSpec == Init /\ [][PollNext]_vars

TabsSpec == Init /\ [][TabsNext]_vars

PageSpec == Init /\ [][PageNext]_vars

StatsSpec == Init /\ [][StatsNext]_vars

RouteSpec == Init /\ [][RouteNext]_vars

SearchSpec == Init /\ [][SearchNext]_vars

RequestSpec == Init /\ [][RequestNext]_vars

Spec == Init /\ [][Next]_vars

(* ------------------------ upload: what is checked ----------------------- *)

Fulfilments == {k \in DOMAIN transfers : transfers[k].promise.state = "fulfilled"}
Rejections == {k \in DOMAIN transfers : transfers[k].promise.state = "rejected"}
Aborts == {k \in DOMAIN transfers : transfers[k].xhr = "aborted"}
Sent == {k \in DOMAIN transfers : transfers[k].xhr = "sent"}

RECURSIVE SumOfFulfilled(_)
\* The aggregate over exactly the transfers of trs that were fulfilled, in order.
SumOfFulfilled(trs) ==
    IF trs = <<>> THEN EmptyAggregate
    ELSE LET t == trs[Len(trs)]
             rest == SumOfFulfilled(SubSeq(trs, 1, Len(trs) - 1))
         IN IF t.promise.state # "fulfilled" THEN rest
            ELSE [job_ids |-> Append(rest.job_ids, t.promise.data.job_id),
                  images_accepted |-> rest.images_accepted + t.promise.data.images_accepted,
                  images_rejected |-> rest.images_rejected + t.promise.data.images_rejected,
                  duplicates_skipped |->
                      rest.duplicates_skipped + t.promise.data.duplicates_skipped]

\* C1: during a batch at most one transfer is in flight, the transfers started are
\* files 0, 1, 2, ... of the input in that order, every transfer before the newest
\* has settled, and the progress snapshot shown while waiting is the newest file's.
C1_OneAtATimeInOrder ==
    /\ Cardinality(Sent) <= 1
    /\ Len(transfers) <= Len(files)
    /\ \A k \in DOMAIN transfers : transfers[k].file = k - 1
    /\ \A k \in DOMAIN transfers :
          k < Len(transfers) => transfers[k].promise.state # "pending"
    /\ upc = "awaiting" =>
          /\ progress # Null
          /\ progress.currentFileIndex = Current.file
          /\ progress.currentFileIndex = Len(transfers) - 1

\* C1 witness: the third file is in flight after one failure and one success.
C1_Witness ==
    /\ Len(transfers) = 3
    /\ transfers[1].promise.state = "rejected"
    /\ transfers[2].promise.state = "fulfilled"
    /\ transfers[3].xhr = "sent"

\* C2: a batch over a non-empty list that ends without cancel() has
\* filesCompleted + filesFailed = totalFiles and as many job ids as completed files.
C2_AllFilesSettle ==
    (upc = "done" /\ Len(files) > 0 /\ ~cancelAt.called) =>
        /\ filesCompleted + filesFailed = Len(files)
        /\ Len(aggregated.job_ids) = filesCompleted

\* C3: without cancel(), a failed file never aborts the batch: every later file is
\* attempted, each failure adds one to filesFailed only, and the aggregate is the
\* sum over exactly the files that succeeded.
C3_FailureNeverAborts ==
    (upc = "done" /\ ~cancelAt.called) =>
        /\ \A k \in Rejections : k = Len(files) \/ Len(transfers) > k
        /\ filesFailed = Cardinality(Rejections)
        /\ filesCompleted = Cardinality(Fulfilments)
        /\ aggregated = SumOfFulfilled(transfers)

\* C4: when cancel() lands after file k has settled and before file k+1 starts, no
\* transfer beyond the k-th is ever started and the batch ends with
\* filesCompleted + filesFailed = k.
C4_CancelBetweenFiles ==
    cancelAt.phase = "gap" =>
        /\ Len(transfers) = cancelAt.k
        /\ upc = "done" => filesCompleted + filesFailed = cancelAt.k

\* C4 witness: cancelled after the second of three files settled; the batch is over.
C4_Witness ==
    /\ cancelAt.phase = "gap" /\ cancelAt.k = 2
    /\ Len(files) = 3 /\ upc = "done"
    /\ filesCompleted = 2

\* C5: when cancel() is called while file i is in flight, that transfer is aborted,
\* no later transfer is started, upload() can resume at once and its resumption ends
\* the batch with uploading = false.
C5_CancelInFlight ==
    cancelAt.phase = "inflight" =>
        /\ transfers[cancelAt.k].xhr = "aborted"
        /\ Len(transfers) = cancelAt.k
        /\ \/ upc = "awaiting" /\ uploading /\ ENABLED UploadResume
           \/ upc = "done" /\ ~uploading

\* C5 witness: the first of three files was cancelled in flight and the batch ended.
C5_Witness ==
    /\ cancelAt.phase = "inflight" /\ cancelAt.k = 1
    /\ Len(files) = 3 /\ upc = "done" /\ ~uploading

\* C6: a transfer that cancel() aborted is not counted in filesFailed, and a batch
\* whose only unsuccessful transfer is the aborted one surfaces no error.
C6_CancelIsNoFailure ==
    upc = "done" =>
        /\ filesFailed = Cardinality(Rejections \ Aborts)
        /\ (Aborts # {} /\ Rejections \subseteq Aborts) => uploadError = Null

\* The outcome rule of C7 over the transfers that succeeded and failed.
ReportsOneOutcome ==
    IF Fulfilments # {}
    THEN result = SumOfFulfilled(transfers) /\ uploadError = Null
    ELSE result = Null /\ uploadError = [allFailed |-> Cardinality(Rejections)]

\* C7 as stated: every finished batch, the empty one included, reports the aggregate
\* and no error when a file succeeded, and otherwise no aggregate and an error naming
\* the failure count.
C7_Original == upc = "done" => ReportsOneOutcome

\* C7 as amended: the rule holds for every non-empty list; the empty list reports
\* neither a result nor an error.
C7_OneOutcome ==
    upc = "done" =>
        IF Len(files) > 0 THEN ReportsOneOutcome
        ELSE result = Null /\ uploadError = Null

\* C7 witness: three files, one failed and two succeeded, and the aggregate is out.
C7_Witness ==
    /\ upc = "done" /\ Len(files) = 3
    /\ Cardinality(Rejections) = 1 /\ Cardinality(Fulfilments) = 2
    /\ result # Null
(* ------------------------ search: what is checked ----------------------- *)

\* The session shows this outcome of a search() call.
Reflects(o) ==
    IF o.ok
    THEN /\ results = o.data
         /\ selfieHash = o.data.selfie_hash
         /\ feedbackApplied = o.data.feedback_applied
         /\ searchError = Null
    ELSE results = Null /\ searchError = ErrorShown(o.message)

\* C8: when an earlier search() call's answer arrives after the answer of the call
\* made last, then once all have settled the session's results, selfieHash,
\* feedbackApplied and error are those of the call made last.
C8_NewestCallWins ==
    (pending = <<>> /\ latest.state = "settled" /\ latest.overtaken) =>
        Reflects(latest.outcome)

\* C9: the excluded_image_ids a search() call sends are, as a set, the session's
\* exclusion set at the call joined with the explicit exclusions, each identifier
\* once, and the field is left out exactly when that union is empty.
C9_SearchSendsUnion ==
    lastRequest # Null =>
        LET field == lastRequest.excluded_image_ids
            sent == Split(field.value)
            union == lastRequest.asked
        IN /\ field.present <=> union # {}
           /\ Range(sent) = union
           /\ Len(sent) = Cardinality(union)

\* C9 witness: a request went out with two identifiers, one of them hidden before.
C9_Witness ==
    /\ lastRequest # Null
    /\ lastRequest.excluded_image_ids = ExcludedField(<<"1", "2">>)
    /\ lastRequest.asked = {"1", "2"}
    /\ hiddenIds = <<"1">>
    /\ pending # <<>>

\* C10: addHiddenId(x) leaves S union {x} in memory and under the event's key, each
\* identifier once, and a second addHiddenId(x) changes neither.
C10_AddHiddenIdIdempotent ==
    [][\A x \in ImageIds :
          AddHiddenId(x) =>
              LET S == Range(hiddenIds)
                  stored == Parse(storage'[StorageKey(eventId)])
              IN /\ Range(hiddenIds') = S \cup {x}
                 /\ Len(hiddenIds') = Cardinality(S \cup {x})
                 /\ Range(stored) = S \cup {x}
                 /\ Len(stored) = Cardinality(S \cup {x})
                 /\ \A e \in EventIds \ {eventId} :
                       storage'[StorageKey(e)] = storage[StorageKey(e)]
                 /\ (x \in S /\ storage[StorageKey(eventId)] = Stringify(hiddenIds)) =>
                       hiddenIds' = hiddenIds /\ storage' = storage]_vars

\* C10 witness: the last step was addHiddenId of an identifier already hidden, and
\* the set in memory and the stored set are the two identifiers hidden so far.
C10_Witness ==
    /\ reAdded
    /\ hiddenIds = <<"1", "2">>
    /\ storage[StorageKey(eventId)] = Stringify(<<"1", "2">>)

(* ------------------------ device: what is checked ----------------------- *)

\* The identifiers persisted for event e.
Persisted(e) == Range(Parse(storage[StorageKey(e)]))

\* C11: a session started for an event for which a session has persisted a set
\* loads exactly that set, each identifier once, and leaves localStorage as it
\* was.
C11_RoundTrip ==
    [][\A e \in EventIds :
          (storage[StorageKey(e)] # <<>> /\ StartSession(e)) =>
              /\ Range(hiddenIds') = Persisted(e)
              /\ Len(hiddenIds') = Cardinality(Persisted(e))
              /\ storage' = storage]_vars

\* C11 witness: the page was reloaded and its session holds the two identifiers
\* that were persisted.
C11_Witness ==
    /\ lastOp = "StartSession"
    /\ hiddenIds = <<"2", "1">>
    /\ storage[StorageKey(eventId)] = Stringify(<<"2", "1">>)

\* C12: for every event the persisted set holds every identifier passed to
\* addHiddenId for it since the last clearHiddenIds.
C12_PersistedSuperset ==
    \A e \in EventIds : marked[e] \subseteq Persisted(e)

(* ------------------------ poller: what is checked ----------------------- *)

\* This step issues a status fetch for job id.
IssuesFetch(id) ==
    Len(fetches') > Len(fetches) /\ fetches'[Len(fetches')].jobId = id

\* C13: once a fetch for a job has returned completed or failed, no step issues
\* another fetch for that job.
C13_NoFetchAfterTerminal ==
    [][\A id \in terminal : ~IssuesFetch(id)]_vars

\* The statuses of the scenario of C14.
Script == <<"pending", "processing", "processing", "completed">>

\* C14: when the first four fetches of a poller were answered pending, processing,
\* processing, completed, all four answers have arrived and no fetch has failed,
\* then four fetches were issued and no more.
C14_ExactlyFourFetches ==
    (/\ jobId # NoJobId
     /\ pollError = Null
     /\ Len(replies) >= Len(Script)
     /\ SubSeq(replies, 1, Len(Script)) = Script
     /\ \A k \in DOMAIN fetches : fetches[k].n > Len(Script))
        => Len(replies) = Len(Script)

\* C15: a fetch that fails sets the error and leaves the timer running, and the
\* timer of a job stops only in a step in which a fetch returns a terminal status.
C15_FailureKeepsPolling ==
    /\ [][\A k \in DOMAIN fetches :
            FetchFails(k) => pollError' # Null /\ interval' = interval]_vars
    /\ [][(interval # 0 /\ interval' = 0 /\ jobId' = jobId) =>
            \E k \in DOMAIN fetches :
                FetchSettles(k) /\ IsTerminal(fetches[k].reply.status)]_vars

\* C15 witness: no fetch has succeeded, at least one has failed, and the timer is
\* running with the third fetch issued.
C15_Witness ==
    /\ pollError # Null /\ job = Null
    /\ interval # 0
    /\ Len(replies) >= 3
    /\ fetches # <<>>

\* C16: a poller without a jobId has no timer and issues no fetch.
C16_InertWithoutJob ==
    /\ [](jobId = NoJobId => interval = 0)
    /\ [][jobId' = NoJobId => Len(fetches') <= Len(fetches)]_vars

\* C16 witness: the poller polled a job, its jobId became null while a fetch was
\* outstanding, and no timer is running.
C16_Witness ==
    /\ jobId = NoJobId
    /\ timers > 0
    /\ interval = 0
    /\ fetches # <<>>

(* ----------------------- find page: what is checked --------------------- *)

\* C17: after a search() call has failed the session shows an error and no
\* results.
C17_FailureShowsNoResults ==
    lastOp = "search failed" => (searchError # Null /\ results = Null)

\* C18: a search() call that succeeds stores the response as it came: results is
\* the response, with its feedback_stats, and selfieHash and feedbackApplied are
\* its selfie_hash and feedback_applied.
C18_SuccessStoresResponse ==
    [][\A k \in DOMAIN pending : \A o \in Outcomes(pending[k]) :
          (o.ok /\ SearchSettles(k, o)) =>
              /\ results' = o.data
              /\ results'.feedback_stats.personal_feedback_count
                    = o.data.feedback_stats.personal_feedback_count
              /\ selfieHash' = o.data.selfie_hash
              /\ feedbackApplied' = o.data.feedback_applied]_vars

\* C18 witness: the search just answered came with feedback applied and three
\* personal marks, and the session shows both.
C18_Witness ==
    /\ lastOp = "search succeeded"
    /\ results # Null
    /\ feedbackApplied
    /\ results.feedback_stats.personal_feedback_count = 3

\* C19: handleNotMe hides the image in memory and in localStorage in its own step,
\* with or without a feedback request, and the settlement of a feedback request,
\* failed or not, changes neither the exclusion set nor the results nor the error.
C19_NotMeHidesRegardless ==
    /\ [][\A x \in ImageIds :
            HandleNotMe(x) =>
                /\ x \in Range(hiddenIds')
                /\ x \in Range(Parse(storage'[StorageKey(eventId)]))]_vars
    /\ [][\A k \in DOMAIN feedback, ok \in BOOLEAN :
            FeedbackSettles(k, ok) =>
                UNCHANGED <<hiddenIds, storage, results, searchError>>]_vars

\* C19 witness: the feedback request of a "not me" has just failed, and the image
\* is hidden while the results stay on the page.
C19_Witness ==
    /\ lastOp = "feedback failed"
    /\ hiddenIds = <<"1">>
    /\ storage[StorageKey(eventId)] = Stringify(<<"1">>)
    /\ results # Null /\ searchError = Null

\* C20: clearHiddenIds leaves nothing hidden in memory and the empty list under the
\* event's key, sends nothing, and leaves the other keys, results, selfieHash,
\* feedbackApplied and error as they were.
C20_ClearHiddenIdsFrame ==
    [][ClearHiddenIds =>
          /\ hiddenIds' = <<>>
          /\ storage'[StorageKey(eventId)] = Stringify(<<>>)
          /\ \A e \in EventIds \ {eventId} :
                storage'[StorageKey(e)] = storage[StorageKey(e)]
          /\ UNCHANGED <<pending, feedback, fetches, transfers>>
          /\ UNCHANGED <<results, selfieHash, feedbackApplied, searchError>>]_vars

\* C20 witness: clearHiddenIds has just run on a page that shows results and has a
\* "not me" feedback request outstanding.
C20_Witness ==
    /\ lastOp = "clearHiddenIds"
    /\ hiddenIds = <<>>
    /\ storage[StorageKey(eventId)] = Stringify(<<>>)
    /\ feedback # <<>>
    /\ results # Null

\* The transfers upload() has accounted for: every transfer but the one it is
\* still waiting on.
Accounted ==
    IF upc = "awaiting" THEN 1 .. (Len(transfers) - 1) ELSE DOMAIN transfers

\* C21: whenever a progress value is exposed, filesCompleted + filesFailed is at
\* most totalFiles, filesCompleted is the number of transfers of the batch that
\* settled as a success, and filesFailed is the number that settled as a failure
\* (a transfer aborted by cancel() is neither).
C21_ProgressCountsSettled ==
    progress # Null =>
        /\ progress.filesCompleted + progress.filesFailed <= progress.totalFiles
        /\ progress.filesCompleted = Cardinality(Accounted \cap Fulfilments)
        /\ progress.filesFailed = Cardinality(Accounted \cap (Rejections \ Aborts))

(* ------------------------ request: what is checked ---------------------- *)

\* C22: once request() has settled on a response, a 2xx response has given the
\* parsed body, and a non-2xx response has given an ApiError with the response's
\* status whose message is the body's error string when the body is JSON with
\* one, and the status text when the body is not JSON.
C22_OneOutcomePerResponse ==
    (res # Null /\ requested # Fetching) =>
        IF Ok(res)
        THEN res.body.parseable /\ requested = Returned(res.body.json)
        ELSE /\ requested.kind = "ApiError"
             /\ requested.status = res.status
             /\ (res.body.parseable /\ res.body.json.error # "")
                    => requested.message = res.body.json.error
             /\ (~res.body.parseable /\ res.statusText # "")
                    => requested.message = res.statusText

\* C23: a step that invokes upload() leaves no progress of the batch before it:
\* after the step the progress is empty, or it is the first snapshot of the new
\* batch (file 0 of the new list, nothing completed, nothing failed).
C23_ProgressClearedOnInvoke ==
    [][\A fs \in FileLists :
          Upload(fs) => \/ progress' = Null
                        \/ fs # <<>> /\ progress' = Snapshot(fs, 0, 0, 0)]_vars

\* C24: a batch that ended after cancel() was called in it, with at least one file
\* accepted, reports as its result the aggregate of exactly the accepted files (one
\* job id each, the counts summed) and no error.
C24_CancelKeepsAggregate ==
    (upc = "done" /\ cancelAt.called /\ Fulfilments # {}) =>
        /\ result = SumOfFulfilled(transfers)
        /\ Len(result.job_ids) = Cardinality(Fulfilments)
        /\ uploadError = Null

\* C24 witness: two files were accepted, the third was cancelled in flight, and the
\* batch ended with a result.
C24_Witness ==
    /\ upc = "done" /\ cancelAt.called /\ cancelAt.phase = "inflight"
    /\ cancelAt.k = 3 /\ Cardinality(Fulfilments) = 2
    /\ transfers[3].xhr = "aborted"
    /\ result # Null /\ Len(result.job_ids) = 2

\* C25: no file of a batch is the subject of two transfers.
C25_NoRetry ==
    \A j, k \in DOMAIN transfers : transfers[j].file = transfers[k].file => j = k

\* C25 witness: of three files the first failed, the second was cancelled in flight
\* after the first had been passed over, and the batch ended with two transfers.
C25_Witness ==
    /\ upc = "done" /\ Len(files) = 3 /\ Len(transfers) = 2
    /\ transfers[1].promise.state = "rejected" /\ transfers[1].xhr # "aborted"
    /\ transfers[2].xhr = "aborted"

\* C26: searching is true exactly while a search request is outstanding; while it
\* is true neither results nor an error are shown; results or an error appear only
\* in a step that leaves searching; and every search() call enters searching.
C26_SearchingWhileOutstanding ==
    /\ [](searching <=> pending # <<>>)
    /\ [](searching => results = Null /\ searchError = Null)
    /\ [][/\ (results' # results /\ results' # Null) => (searching /\ ~searching')
          /\ (searchError' # searchError /\ searchError' # Null)
                => (searching /\ ~searching')
          /\ Len(pending') > Len(pending) => searching']_vars

Tab2Ops == {"tab2 StartSession", "tab2 addHiddenId", "tab2 clearHiddenIds"}

\* C27: with two tabs on the same event, the text stored under the event's key is
\* the exclusion set of the tab whose session wrote last, as that tab wrote it.
C27_LastWriterWins ==
    (tab2.open /\ tab2.eventId = eventId) =>
        storage[StorageKey(eventId)] =
            Stringify(IF lastOp \in Tab2Ops THEN tab2.hiddenIds ELSE hiddenIds)

\* C27 witness: the first tab hid image 2, the second tab, which had loaded before
\* that, then hid image 1, and the key holds the second tab's set only.
C27_Witness ==
    /\ tab2.open /\ tab2.eventId = eventId
    /\ lastOp = "tab2 addHiddenId"
    /\ hiddenIds = <<ToString(2)>> /\ tab2.hiddenIds = <<ToString(1)>>
    /\ storage[StorageKey(eventId)] = Stringify(<<ToString(1)>>)

\* C28: a status fetch issued for a jobId the poller no longer has changes neither
\* the exposed job nor the exposed error when it settles, and while the poller has
\* a jobId the exposed job is never the record of another job.
C28_TornDownFetchIsInert ==
    /\ [][\A k \in DOMAIN fetches :
             ((FetchSettles(k) \/ FetchFails(k)) /\ fetches[k].jobId # jobId)
                 => (job' = job /\ pollError' = pollError)]_vars
    /\ []((job # Null /\ jobId # NoJobId) => job.id = jobId)

\* C29: once the exposed job has a terminal status, no later step exposes another
\* status for the same job.
C29_TerminalIsFinal ==
    [][(job # Null /\ IsTerminal(job.status) /\ job' # Null /\ job'.id = job.id)
           => job'.status = job.status]_vars

(* ----------------------- find page: what is checked --------------------- *)

\* C30: every feedback request sent carries the selfie hash of the response that
\* is displayed when it is sent (the smart search's when that is displayed, the
\* face search's otherwise), and none is sent when that response has no hash.
C30_FeedbackHashOfDisplayed ==
    [][Len(feedback') > Len(feedback) =>
          /\ activeResults # Null
          /\ activeResults.selfie_hash # Null
          /\ feedback'[Len(feedback')].selfie_hash = activeResults.selfie_hash]_vars

\* find/page.tsx:160-162, gallery/page.tsx:320-322: the images rendered.
filteredResults == {imageId \in ImageIds : Shown(imageId)}

\* C31: no rendered image is in the exclusion set, and no image passed to
\* addHiddenId for this event since the last clearHiddenIds is rendered, whatever
\* searches and page loads came after.
C31_HiddenNeverRendered ==
    /\ filteredResults \cap Range(hiddenIds) = {}
    /\ filteredResults \cap marked[eventId] = {}

\* C31 witness: image 1 was marked "not me", a later search returned it again, and
\* the page renders image 2 only.
C31_Witness ==
    /\ lastOp = "search succeeded"
    /\ ToString(1) \in marked[eventId]
    /\ results # Null /\ results.results = ImageIds
    /\ filteredResults = ImageIds \ {ToString(1)}

C33_EveryTransferSettles ==
    /\ \A k \in DOMAIN transfers :
          transfers[k].xhr # "sent" => transfers[k].promise.state # "pending"
    /\ uploading => InFlight \/ (upc = "awaiting" /\ Awaited(Current.promise))

\* C34: a batch that ended without cancel() having been called during it has
\* started a transfer for every one of its files, whatever the replies were.
C34_StopsEarlyOnlyOnCancel ==
    (upc = "done" /\ ~cancelAt.called) => Len(transfers) = Len(files)

C36_ResultsXorError == ~(results # Null /\ searchError # Null)

\* C37: whenever results are shown, selfieHash is their selfie_hash and
\* feedbackApplied is their feedback_applied, whatever searches (answered, failed,
\* overlapping) and clearResults calls came before.
C37_HashMatchesResults ==
    results # Null =>
        /\ selfieHash = results.selfie_hash
        /\ feedbackApplied = results.feedback_applied

\* Two overlapping searches were answered one after the other, the later answer with
\* feedback applied, and its response is the one shown.
C37_Witness ==
    /\ results # Null /\ results.feedback_applied /\ feedbackApplied
    /\ latest.overtaken
    /\ pending = <<>>

\* C38: exclusion sets are event-scoped: what is stored under an event's key holds
\* only identifiers hidden while the session's event was that event, and a search
\* for an event excludes only such identifiers, also after the event of a live
\* session has changed.
C38_ExclusionsEventScoped ==
    /\ [](\A e \in EventIds : Range(loadHiddenIds(e)) \subseteq marked[e])
    /\ [][lastRequest' # lastRequest /\ lastRequest' # Null
            => lastRequest'.asked \subseteq marked[lastRequest'.event_id]]_vars

\* C39: the job poller has at most one status fetch in flight: no fetch is started,
\* by the effect or by a tick of the interval timer, while an earlier one is
\* unresolved.
C39_OneFetchInFlight == Len(fetches) <= 1

\* C40: the error of the job poller reflects the fetch that settled last: a fetch
\* that is answered leaves no error behind, and an error appears only when a fetch
\* fails.
C40_ErrorOfLatestFetch ==
    [][/\ \A k \in DOMAIN fetches : FetchSettles(k) => pollError' = Null
       /\ (pollError' # Null /\ pollError = Null)
            => \E k \in DOMAIN fetches : FetchFails(k)]_vars

=============================================================================
